---- MODULE Spec2Model ----
(***************************************************************************)
(* Cluster lifecycle of atmo/clusters/models.py: the Cluster model's       *)
(* save, sync, extend and deactivate, run by workers that each hold their  *)
(* own in-memory instance of the one persisted row.                        *)
(*                                                                         *)
(* Datetimes are whole seconds. An optional value is a record [k, v]:      *)
(* k = "none" is Python's None, k = "val" a value, and k = "F" the         *)
(* database expression models.F(<the field itself>) + v.                   *)
(***************************************************************************)
EXTENDS Integers, Sequences, FiniteSets, TLC

VARIABLES
    table,      \* the clusters table: <<>> or <<row>> (the one record)
    mem,        \* mem[w]: worker w's Cluster instance, <<>> or <<instance>>
    pending,    \* pending[w]: a sync registered by transaction.on_commit, not run yet
    now,        \* timezone.now(), seconds
    startOk,    \* number of provisioner.start calls that returned a handle
    last,       \* the last operation: who ran what, with which result
    hist        \* the operations of a bounded sequential run, oldest first

vars == <<table, mem, pending, now, startOk, last, hist>>

-----------------------------------------------------------------------------
(* Optional values *)

NoneT == [k |-> "none", v |-> 0]
NoneS == [k |-> "none", v |-> ""]
Val(x) == [k |-> "val", v |-> x]
FExpr(d) == [k |-> "F", v |-> d]
IsNone(o) == o.k = "none"
IsF(o) == o.k = "F"

HOUR == 3600
DAY == 86400

-----------------------------------------------------------------------------
(* Status constants *)

STATUS_STARTING == "STARTING"
STATUS_BOOTSTRAPPING == "BOOTSTRAPPING"
STATUS_RUNNING == "RUNNING"
STATUS_WAITING == "WAITING"
STATUS_TERMINATING == "TERMINATING"
STATUS_TERMINATED == "TERMINATED"
STATUS_TERMINATED_WITH_ERRORS == "TERMINATED_WITH_ERRORS"

TERMINATED_STATUS_LIST == {STATUS_TERMINATED}
FAILED_STATUS_LIST == {STATUS_TERMINATED_WITH_ERRORS}
FINAL_STATUS_LIST == TERMINATED_STATUS_LIST \cup FAILED_STATUS_LIST

IsFinal(status) == status.k = "val" /\ status.v \in FINAL_STATUS_LIST

-----------------------------------------------------------------------------
(* The record *)

\* Cluster(size=..., lifetime=..., emr_release=...): an unsaved instance with
\* the fields' defaults.
NewCluster(size, lifetime, release_active) ==
    [ pk                       |-> FALSE,
      size                     |-> size,
      lifetime                 |-> lifetime,
      release_active           |-> release_active,
      jobflow_id               |-> NoneS,
      most_recent_status       |-> Val(""),
      master_address           |-> Val(""),
      started_at               |-> NoneT,
      ready_at                 |-> NoneT,
      finished_at              |-> NoneT,
      expires_at               |-> NoneT,
      lifetime_extension_count |-> Val(0) ]

\* Map AWS API fields to Cluster model fields, in the order of the loop.
model_field_map ==
    << <<"state", "most_recent_status">>,
       <<"public_dns", "master_address">>,
       <<"creation_datetime", "started_at">>,
       <<"ready_datetime", "ready_at">>,
       <<"end_datetime", "finished_at">> >>

MergedFields == {model_field_map[i][2] : i \in 1..Len(model_field_map)}
DateFields == {"started_at", "ready_at", "finished_at"}

\* A metric as Metric.record(name, value) stores it.
Metric(name, value) == [name |-> name, value |-> value]

\* timedelta.seconds: the seconds of the day part, the days dropped.
TimedeltaSeconds(later, earlier) == (later - earlier) % DAY

\* math.ceil(seconds / 60 / 60)
CeilHours(seconds) == (seconds + HOUR - 1) \div HOUR

-----------------------------------------------------------------------------
(* Snapshots: the dict provisioner.info returns *)

Info(state, public_dns, creation_datetime, ready_datetime, end_datetime) ==
    [ state             |-> state,
      public_dns        |-> public_dns,
      creation_datetime |-> creation_datetime,
      ready_datetime    |-> ready_datetime,
      end_datetime      |-> end_datetime ]

EmptyInfo == Info(NoneS, NoneS, NoneT, NoneT, NoneT)

\* The outcome of a describe call: NoInfo when it raised.
NoInfo == [k |-> "none", v |-> EmptyInfo]

\* What the environment answers while one operation runs: the clock, the
\* outcome of provisioner.start (NoneS: it raised), whether a transaction is
\* open (transaction.on_commit then defers its callback; without one it runs
\* the callback at once), and the outcome of provisioner.info.
Env(clock, start, atomic, describe) ==
    [now |-> clock, start |-> start, atomic |-> atomic, describe |-> describe]

-----------------------------------------------------------------------------
(* Outcomes of an operation on an instance *)

Outcome(inst, tbl) ==
    [ inst        |-> inst,
      table       |-> tbl,
      emitted     |-> <<>>,
      raised      |-> FALSE,
      saved       |-> FALSE,
      startCalled |-> FALSE,
      started     |-> 0,
      stopCalled  |-> FALSE,
      stopped     |-> FALSE,
      scheduled   |-> FALSE ]

\* The column value an UPDATE writes for a field: an F expression is
\* evaluated by the database against the row's current value.
Column(value, current) ==
    IF IsF(value)
    THEN (IF IsNone(current) THEN current ELSE Val(current.v + value.v))
    ELSE value

\* The row Model.save() writes for an instance.
RowOf(inst, current) ==
    [inst EXCEPT
        !.pk = TRUE,
        !.expires_at = Column(inst.expires_at, current.expires_at),
        !.lifetime_extension_count =
            Column(inst.lifetime_extension_count, current.lifetime_extension_count)]

HasExpression(inst) == IsF(inst.expires_at) \/ IsF(inst.lifetime_extension_count)

\* super().save(): UPDATE every column of the row of a saved instance, INSERT
\* the row of a new one. An F expression cannot be inserted (Django raises). The instance
\* keeps its F expressions after the save.
SuperSave(o) ==
    IF ~o.inst.pk
    THEN IF HasExpression(o.inst)
         THEN [o EXCEPT !.raised = TRUE]
         ELSE [o EXCEPT !.inst.pk = TRUE,
                        !.table = <<[o.inst EXCEPT !.pk = TRUE]>>,
                        !.saved = TRUE]
    ELSE [o EXCEPT !.inst.pk = TRUE,
                   !.table = <<RowOf(o.inst, o.table[1])>>,
                   !.saved = TRUE]

RECURSIVE MergeFrom(_, _, _)

\* The loop without its test for an unchanged value.
MergeFrom_NoEqualTest(m, info, i) ==
    IF i > Len(model_field_map) THEN m
    ELSE LET api_field == model_field_map[i][1]
             model_field == model_field_map[i][2]
             field_value == info[api_field]
         IN  IF IsNone(field_value)
             THEN MergeFrom(m, info, i + 1)
             ELSE MergeFrom(
                    [ inst |-> [m.inst EXCEPT ![model_field] = field_value],
                      save_needed |-> TRUE,
                      date_fields_updated |->
                          m.date_fields_updated \/ model_field \in DateFields ],
                    info, i + 1)

\* The loop without its test for a null snapshot value.
MergeFrom_NoNullTest(m, info, i) ==
    IF i > Len(model_field_map) THEN m
    ELSE LET api_field == model_field_map[i][1]
             model_field == model_field_map[i][2]
             field_value == info[api_field]
         IN  IF field_value = m.inst[model_field]
             THEN MergeFrom(m, info, i + 1)
             ELSE MergeFrom(
                    [ inst |-> [m.inst EXCEPT ![model_field] = field_value],
                      save_needed |-> TRUE,
                      date_fields_updated |->
                          m.date_fields_updated \/ model_field \in DateFields ],
                    info, i + 1)

\* The loop setting a field only while it is unset.
MergeFrom_FirstWins(m, info, i) ==
    IF i > Len(model_field_map) THEN m
    ELSE LET api_field == model_field_map[i][1]
             model_field == model_field_map[i][2]
             field_value == info[api_field]
             unset == IF model_field \in DateFields
                      THEN IsNone(m.inst[model_field])
                      ELSE m.inst[model_field] = Val("")
         IN  IF IsNone(field_value) \/ ~unset
             THEN MergeFrom(m, info, i + 1)
             ELSE MergeFrom(
                    [ inst |-> [m.inst EXCEPT ![model_field] = field_value],
                      save_needed |-> TRUE,
                      date_fields_updated |->
                          m.date_fields_updated \/ model_field \in DateFields ],
                    info, i + 1)

\* The loop of sync over model_field_map from its i-th pair on: m is
\* [inst, save_needed, date_fields_updated].
MergeFrom(m, info, i) ==
    IF i > Len(model_field_map) THEN m
    ELSE LET api_field == model_field_map[i][1]
             model_field == model_field_map[i][2]
             field_value == info[api_field]
         IN  IF IsNone(field_value) \/ field_value = m.inst[model_field]
             THEN MergeFrom(m, info, i + 1)
             ELSE MergeFrom(
                    [ inst |-> [m.inst EXCEPT ![model_field] = field_value],
                      save_needed |-> TRUE,
                      date_fields_updated |->
                          m.date_fields_updated \/ model_field \in DateFields ],
                    info, i + 1)

Merge(inst, info) ==
    MergeFrom([inst |-> inst, save_needed |-> FALSE, date_fields_updated |-> FALSE],
              info, 1)

\* Lines 303-316: the normalized instance hours of a finished cluster.
\* started_at None makes the subtraction raise.
FinishedMetrics(o) ==
    IF IsNone(o.inst.finished_at) THEN o
    ELSE IF IsNone(o.inst.started_at) THEN [o EXCEPT !.raised = TRUE]
    ELSE LET hours == CeilHours(
                 TimedeltaSeconds(o.inst.finished_at.v, o.inst.started_at.v))
             normalized_hours == hours * o.inst.size
         IN  [o EXCEPT !.emitted = Append(@,
                 Metric("cluster-normalized-instance-hours", Val(normalized_hours)))]

\* The ready metrics without the test that the cluster has not finished.
ReadyMetrics_NoFinishedTest(o) ==
    IF IsNone(o.inst.ready_at) THEN o
    ELSE LET counted == [o EXCEPT !.emitted = Append(@, Metric("cluster-ready", NoneT))]
         IN  IF IsNone(o.inst.started_at) THEN [counted EXCEPT !.raised = TRUE]
             ELSE LET time_to_ready ==
                          TimedeltaSeconds(o.inst.ready_at.v, o.inst.started_at.v)
                  IN  [counted EXCEPT !.emitted = Append(@,
                          Metric("cluster-time-to-ready", Val(time_to_ready)))]

\* Lines 318-336: the count of ready clusters and the time to ready.
ReadyMetrics(o) ==
    IF IsNone(o.inst.ready_at) \/ ~IsNone(o.inst.finished_at) THEN o
    ELSE LET counted == [o EXCEPT !.emitted = Append(@, Metric("cluster-ready", NoneT))]
         IN  IF IsNone(o.inst.started_at) THEN [counted EXCEPT !.raised = TRUE]
             ELSE LET time_to_ready ==
                          TimedeltaSeconds(o.inst.ready_at.v, o.inst.started_at.v)
                  IN  [counted EXCEPT !.emitted = Append(@,
                          Metric("cluster-time-to-ready", Val(time_to_ready)))]

SyncMetrics(o) ==
    LET finished == FinishedMetrics(o)
    IN  IF finished.raised THEN finished ELSE ReadyMetrics(finished)

RECURSIVE SaveOp(_, _)
RECURSIVE SyncOp(_, _, _)

\* sync saving the instance when the fetch of the snapshot raised.
SyncOp_SaveOnFailedFetch(o, fetched, env) ==
    IF IsNone(fetched) THEN SaveOp(o, env)
    ELSE LET m == Merge(o.inst, fetched.v)
             merged == [o EXCEPT !.inst = m.inst]
             saved == IF m.save_needed THEN SaveOp(merged, env) ELSE merged
         IN  IF saved.raised THEN saved
             ELSE IF m.date_fields_updated THEN SyncMetrics(saved)
             ELSE saved

\* Cluster.sync(info) on the instance of o; fetched is info, or the outcome of
\* self.info when sync is called without one.
SyncOp(o, fetched, env) ==
    IF IsNone(fetched) THEN [o EXCEPT !.raised = TRUE]
    ELSE LET m == Merge(o.inst, fetched.v)
             merged == [o EXCEPT !.inst = m.inst]
             saved == IF m.save_needed THEN SaveOp(merged, env) ELSE merged
         IN  IF saved.raised THEN saved
             ELSE IF m.date_fields_updated THEN SyncMetrics(saved)
             ELSE saved

\* The start of save going on without a handle when provisioner.start raised.
StartCluster_Swallow(o, env) ==
    IF IsNone(env.start) THEN [o EXCEPT !.startCalled = TRUE]
    ELSE LET handled == [o EXCEPT !.inst.jobflow_id = env.start,
                                  !.startCalled = TRUE,
                                  !.started = @ + 1]
             committed == IF env.atomic THEN [handled EXCEPT !.scheduled = TRUE]
                          ELSE SyncOp(handled, env.describe, env)
         IN  IF committed.raised THEN committed
             ELSE [committed EXCEPT !.emitted =
                      Append(@, Metric("cluster-emr-version", NoneT))]

\* Lines 343-356 of save: start the cluster of an instance without jobflow_id.
StartCluster(o, env) ==
    IF IsNone(env.start) THEN [o EXCEPT !.raised = TRUE, !.startCalled = TRUE]
    ELSE LET handled == [o EXCEPT !.inst.jobflow_id = env.start,
                                  !.startCalled = TRUE,
                                  !.started = @ + 1]
             committed == IF env.atomic THEN [handled EXCEPT !.scheduled = TRUE]
                          ELSE SyncOp(handled, env.describe, env)
         IN  IF committed.raised THEN committed
             ELSE [committed EXCEPT !.emitted =
                      Append(@, Metric("cluster-emr-version", NoneT))]

\* Lines 358-361 of save: set the dates.
SetExpiry(o, env) ==
    IF IsNone(o.inst.expires_at)
    THEN [o EXCEPT !.inst.expires_at = Val(env.now + o.inst.lifetime * HOUR)]
    ELSE o

\* save without the test of jobflow_id.
NeedsStart_Always(inst) == TRUE

\* Line 343: the cluster is started when the instance has no jobflow_id.
NeedsStart(inst) == IsNone(inst.jobflow_id)

\* Cluster.save()
SaveOp(o, env) ==
    LET spawned == IF NeedsStart(o.inst) THEN StartCluster(o, env) ELSE o
    IN  IF spawned.raised THEN spawned
        ELSE LET written == SuperSave(SetExpiry(spawned, env))
             IN  IF written.raised THEN [written EXCEPT !.scheduled = FALSE]
                 ELSE written

\* extend without the count of extensions.
ExtendOp_NoCount(o, hours, env) ==
    LET assigned == [o EXCEPT !.inst.expires_at = FExpr(hours * HOUR)]
        saved == SaveOp(assigned, env)
    IN  IF saved.raised THEN saved
        ELSE [saved EXCEPT !.emitted = Append(@, Metric("cluster-extension", NoneT))]

\* Cluster.extend(hours)
ExtendOp(o, hours, env) ==
    LET assigned == [o EXCEPT !.inst.expires_at = FExpr(hours * HOUR),
                              !.inst.lifetime_extension_count = FExpr(1)]
        saved == SaveOp(assigned, env)
    IN  IF saved.raised THEN saved
        ELSE [saved EXCEPT !.emitted = Append(@, Metric("cluster-extension", NoneT))]

\* Cluster.deactivate(); stopped is whether provisioner.stop returned.
DeactivateOp(o, stopped, env) ==
    IF ~stopped THEN [o EXCEPT !.raised = TRUE, !.stopCalled = TRUE]
    ELSE SyncOp([o EXCEPT !.stopCalled = TRUE, !.stopped = TRUE], env.describe, env)

-----------------------------------------------------------------------------
(* Bounds and inputs *)

MaxClock == 1          \* the clock ticks this many hours
MaxExtensions == 2     \* lifetime_extension_count is explored up to this
MaxOps == 2            \* operations of a sequential run

\* The two paths that work on a record: "web" serves the user's requests
\* (create, save, extend, terminate) and keeps its instance between them;
\* "sweep" is the periodic task, which loads the record, runs one sync or
\* deactivate on it and ends.
Workers == {"web", "sweep"}
Tasks == {"sweep"}

StartResults == {NoneS, Val("j-1")}

\* Creation requests <<size, lifetime, release is active>>: a valid one and
\* the three invalid ones.
Requests == {<<2, 1, TRUE>>, <<0, 1, TRUE>>, <<2, 0, TRUE>>, <<2, 1, FALSE>>}

ExtendHours == {0, 2}

\* The snapshots of one cluster's life, as the backend reports them: while it
\* runs and after it has ended.
LifeSnapshots ==
    { Info(Val(STATUS_RUNNING), Val("dns"), Val(0), Val(600), NoneT),
      Info(Val(STATUS_TERMINATED), Val("dns"), Val(0), Val(600), Val(3601)) }

\* Snapshots of a sequential run: every combination of these field values,
\* the address reported while the cluster is up.
SeqSnapshots ==
    { Info(st, IF st = Val(STATUS_WAITING) THEN Val("dns") ELSE NoneS, c, r, e) :
        st \in {NoneS, Val(STATUS_WAITING), Val(STATUS_TERMINATED)},
        c \in {NoneT, Val(0), Val(1)},
        r \in {NoneT, Val(600)},
        e \in {NoneT, Val(3601), Val(DAY + 1)} }

SeqSizes == {1, 3}

SeqHours == {-1, 0, 2, 3}

Fetches(snapshots) == {NoInfo} \cup {Val(i) : i \in snapshots}

\* The environments an operation on inst can meet. start and on_commit are
\* reached only by an instance without jobflow_id.
EnvsFor(inst, snapshots) ==
    IF IsNone(inst.jobflow_id)
    THEN {Env(now, s, a, d) : s \in StartResults, a \in BOOLEAN, d \in Fetches(snapshots)}
    ELSE {Env(now, NoneS, TRUE, NoInfo)}

-----------------------------------------------------------------------------
(* Operations *)

Op(op, w, fetched, hours, pre, out) ==
    [ op          |-> op,
      w           |-> w,
      fetched     |-> fetched,
      hours       |-> hours,
      raised      |-> out.raised,
      emitted     |-> out.emitted,
      saved       |-> out.saved,
      startCalled |-> out.startCalled,
      started     |-> out.started,
      stopCalled  |-> out.stopCalled,
      stopped     |-> out.stopped,
      scheduled   |-> out.scheduled,
      preHandle   |-> pre.jobflow_id ]

NoOp(op, w) ==
    Op(op, w, NoInfo, 0, NewCluster(0, 0, FALSE), Outcome(NewCluster(0, 0, FALSE), <<>>))

WithinBounds(out) ==
    IF out.table = <<>> THEN TRUE
    ELSE out.table[1].lifetime_extension_count.v <= MaxExtensions

\* Worker w ran an operation on its instance, with outcome out.
Apply(op, w, fetched, hours, out) ==
    /\ WithinBounds(out)
    /\ mem' = [mem EXCEPT ![w] = IF w \in Tasks THEN <<>> ELSE <<out.inst>>]
    /\ table' = out.table
    /\ pending' = [pending EXCEPT ![w] = out.scheduled]
    /\ startOk' = startOk + out.started
    /\ last' = Op(op, w, fetched, hours, mem[w][1], out)
    /\ UNCHANGED now

Idle(w) == mem[w] # <<>> /\ ~pending[w]

\* A worker constructs the record's instance; nothing is saved yet.
New(w, req) ==
    /\ table = <<>>
    /\ \A v \in Workers : mem[v] = <<>>
    /\ mem' = [mem EXCEPT ![w] = <<NewCluster(req[1], req[2], req[3])>>]
    /\ last' = NoOp("new", w)
    /\ UNCHANGED <<table, pending, now, startOk, hist>>

\* A worker fetches the row into a new instance (Cluster.objects.get).
Load(w) ==
    /\ table # <<>>
    /\ ~pending[w]
    /\ mem' = [mem EXCEPT ![w] = <<table[1]>>]
    /\ last' = NoOp("load", w)
    /\ UNCHANGED <<table, pending, now, startOk, hist>>

Save(w, env) ==
    /\ Idle(w)
    /\ Apply("save", w, NoInfo, 0, SaveOp(Outcome(mem[w][1], table), env))

Sync(w, fetched, env) ==
    /\ Idle(w)
    /\ Apply("sync", w, fetched, 0, SyncOp(Outcome(mem[w][1], table), fetched, env))

Extend(w, hours, env) ==
    /\ Idle(w)
    /\ Apply("extend", w, NoInfo, hours, ExtendOp(Outcome(mem[w][1], table), hours, env))

Deactivate(w, stopped, env) ==
    /\ Idle(w)
    /\ Apply("deactivate", w, env.describe, 0,
             DeactivateOp(Outcome(mem[w][1], table), stopped, env))

\* The transaction committed: the callback save registered runs self.sync().
OnCommit(w, env) ==
    /\ mem[w] # <<>>
    /\ pending[w]
    /\ Apply("on_commit", w, env.describe, 0,
             SyncOp(Outcome(mem[w][1], table), env.describe, env))

\* The clock is read by save alone, to set the expires_at of a new record:
\* it is followed until the record is saved.
Tick ==
    /\ table = <<>>
    /\ now < MaxClock * HOUR
    /\ now' = now + HOUR
    /\ last' = NoOp("tick", "web")
    /\ UNCHANGED <<table, mem, pending, startOk, hist>>

-----------------------------------------------------------------------------
(* The concurrent specification: any worker, any operation, any order *)

Init ==
    /\ table = <<>>
    /\ mem = [w \in Workers |-> <<>>]
    /\ pending = [w \in Workers |-> FALSE]
    /\ now = 0
    /\ startOk = 0
    /\ last = NoOp("init", "web")
    /\ hist = <<>>

\* The environments of an operation that calls provisioner.info.
DescribeEnvs ==
    {Env(now, NoneS, TRUE, d) : d \in Fetches(LifeSnapshots)}

\* The workers that hold an instance.
Holding == {w \in Workers : mem[w] # <<>>}

Next ==
    \/ \E w \in Workers \ Tasks, req \in Requests : New(w, req)
    \/ \E w \in Workers : Load(w)
    \/ \E w \in Holding \ Tasks : \E env \in EnvsFor(mem[w][1], LifeSnapshots) :
          Save(w, env) /\ UNCHANGED hist
    \/ \E w \in Holding, f \in Fetches(LifeSnapshots) :
          \E env \in EnvsFor(mem[w][1], LifeSnapshots) :
             Sync(w, f, env) /\ UNCHANGED hist
    \/ \E w \in Holding \ Tasks, h \in ExtendHours :
          \E env \in EnvsFor(mem[w][1], LifeSnapshots) :
             Extend(w, h, env) /\ UNCHANGED hist
    \/ \E w \in Holding, stopped \in BOOLEAN :
          \E env \in EnvsFor(mem[w][1], LifeSnapshots) \cup DescribeEnvs :
             Deactivate(w, stopped, env) /\ UNCHANGED hist
    \/ \E w \in Holding, env \in DescribeEnvs :
          OnCommit(w, env) /\ UNCHANGED hist
    \/ Tick

Spec == Init /\ [][Next]_vars

-----------------------------------------------------------------------------
(* The sequential specification: one instance of a record that was just      *)
(* created, and up to MaxOps calls of sync, extend and save on it, each kept *)
(* in hist with the instance and the row before and after it.                *)

SeqWorker == "web"

\* The outcome of the save that created the record: start returned a handle.
Created(size) ==
    SaveOp(Outcome(NewCluster(size, 1, TRUE), <<>>), Env(0, Val("j-1"), TRUE, NoInfo))

SeqInit ==
    \E size \in SeqSizes :
        /\ table = Created(size).table
        /\ mem = [w \in Workers |-> IF w = SeqWorker THEN <<Created(size).inst>> ELSE <<>>]
        /\ pending = [w \in Workers |-> FALSE]
        /\ now = 0
        /\ startOk = 1
        /\ last = NoOp("init", SeqWorker)
        /\ hist = <<>>

\* The step just taken, for hist.
Record ==
    hist' = Append(hist,
          [ op      |-> last'.op,
            fetched |-> last'.fetched,
            hours   |-> last'.hours,
            raised  |-> last'.raised,
            emitted |-> last'.emitted,
            saved   |-> last'.saved,
            pre     |-> mem[SeqWorker][1],
            post    |-> mem'[SeqWorker][1],
            preRow  |-> table[1],
            postRow |-> table'[1] ])

Running == Len(hist) < MaxOps

SeqSync(f, env) == Running /\ Sync(SeqWorker, f, env) /\ Record
SeqExtend(h, env) == Running /\ Extend(SeqWorker, h, env) /\ Record
SeqSave(env) == Running /\ Save(SeqWorker, env) /\ Record

SeqNext ==
    \/ \E f \in Fetches(SeqSnapshots) :
          \E env \in EnvsFor(mem[SeqWorker][1], SeqSnapshots) : SeqSync(f, env)
    \/ \E h \in SeqHours :
          \E env \in EnvsFor(mem[SeqWorker][1], SeqSnapshots) : SeqExtend(h, env)
    \/ \E env \in EnvsFor(mem[SeqWorker][1], SeqSnapshots) : SeqSave(env)

SeqSpec == SeqInit /\ [][SeqNext]_vars

-----------------------------------------------------------------------------
(* Properties *)

Steps == 1..Len(hist)

\* The names of the metrics an operation emitted, in order.
Names(emitted) == [i \in 1..Len(emitted) |-> emitted[i].name]

Emits(emitted, name) == \E i \in 1..Len(emitted) : emitted[i].name = name

\* The model field a snapshot field is mapped to is left alone by the snapshot.
\* (i indexes model_field_map)
ApiField(i) == model_field_map[i][1]
ModelField(i) == model_field_map[i][2]

\* The step is a call of op by worker w on the instance it holds.
Calls(op, w) == mem[w] # <<>> /\ last'.op = op /\ last'.w = w

\* C1. Terminal barrier: a sync of a record whose most_recent_status is
\* TERMINATED or TERMINATED_WITH_ERRORS leaves most_recent_status as it was,
\* whatever the snapshot, in the instance and in the row it writes.
C1_TerminalBarrier ==
    [][\A w \in Workers :
         (Calls("sync", w) /\ IsFinal(mem[w][1].most_recent_status)) =>
            /\ mem'[w] # <<>> =>
                  mem'[w][1].most_recent_status = mem[w][1].most_recent_status
            /\ last'.saved =>
                  table'[1].most_recent_status = mem[w][1].most_recent_status]_vars

\* C2. No lost update: a sync that persists changes, in the row another
\* worker may have written since this worker loaded it, only the fields its
\* own snapshot sets; the other merged fields, expires_at and
\* lifetime_extension_count keep the persisted values.
C2_NoLostUpdate ==
    [][\A w \in Tasks :
         (Calls("sync", w) /\ ~IsNone(last'.fetched) /\ table # <<>>) =>
            /\ \A i \in 1..Len(model_field_map) :
                  IsNone(last'.fetched.v[ApiField(i)]) =>
                     table'[1][ModelField(i)] = table[1][ModelField(i)]
            /\ table'[1].expires_at = table[1].expires_at
            /\ table'[1].lifetime_extension_count =
                  table[1].lifetime_extension_count]_vars

\* C3. Create is idempotent: provisioner.start is called only by an operation
\* on an instance whose jobflow_id is None and only while no start has
\* returned a handle; start returns a handle at most once per record.
C3_StartAtMostOnce ==
    /\ startOk <= 1
    /\ last.startCalled => (IsNone(last.preHandle) /\ startOk = last.started)

\* A save of an instance that has its handle wrote the row and called no start.
C3_Witness ==
    /\ last.op = "save"
    /\ ~IsNone(last.preHandle)
    /\ last.saved
    /\ ~last.startCalled
    /\ startOk = 1

\* Steps i and i+1 are syncs of the same snapshot, with ready_datetime set and
\* end_datetime null.
ReadySnapshotTwice(i) ==
    /\ i + 1 <= Len(hist)
    /\ hist[i].op = "sync"
    /\ hist[i + 1].op = "sync"
    /\ ~IsNone(hist[i].fetched)
    /\ hist[i + 1].fetched = hist[i].fetched
    /\ ~IsNone(hist[i].fetched.v.ready_datetime)
    /\ IsNone(hist[i].fetched.v.end_datetime)

C5_InstanceHours ==
    \A i \in Steps :
        \A j \in 1..Len(hist[i].emitted) :
            ( /\ hist[i].emitted[j].name = "cluster-normalized-instance-hours"
              /\ hist[i].post.started_at.v <= hist[i].post.finished_at.v ) =>
                hist[i].emitted[j].value =
                    Val(CeilHours(hist[i].post.finished_at.v - hist[i].post.started_at.v)
                        * hist[i].post.size)

\* Every field set in snapshot s1 is set in snapshot s2.
Covers(s2, s1) ==
    \A i \in 1..Len(model_field_map) :
        ~IsNone(s1[ApiField(i)]) => ~IsNone(s2[ApiField(i)])

\* The first two operations are syncs of snapshots, the second covering the first.
CoveredPair ==
    /\ Len(hist) >= 2
    /\ hist[1].op = "sync"
    /\ hist[2].op = "sync"
    /\ ~IsNone(hist[1].fetched)
    /\ ~IsNone(hist[2].fetched)
    /\ Covers(hist[2].fetched.v, hist[1].fetched.v)

\* sync(s) alone on the record as it was created.
Alone(s) ==
    SyncOp(Outcome(hist[1].pre, <<hist[1].preRow>>), Val(s), Env(0, NoneS, TRUE, NoInfo))

\* C6. Non-reverting merge: after sync(S1) then sync(S2) on a fresh record,
\* S2 setting every field S1 sets, the five merged fields of the instance and
\* of the row are those sync(S2) alone gives a fresh record.
C6_CoveringSnapshotWins ==
    CoveredPair =>
        \A f \in MergedFields :
            /\ hist[2].post[f] = Alone(hist[2].fetched.v).inst[f]
            /\ hist[2].postRow[f] = Alone(hist[2].fetched.v).table[1][f]

\* The second snapshot replaced values the first had set.
C6_Witness ==
    /\ CoveredPair
    /\ hist[1].post.finished_at = Val(3601)
    /\ hist[2].post.finished_at = Val(DAY + 1)
    /\ hist[1].post.most_recent_status # hist[2].post.most_recent_status
    /\ hist[2].postRow.started_at = Val(1)

\* Steps i and i+1 are extends by positive hours.
ExtendedTwice(i) ==
    /\ i + 1 <= Len(hist)
    /\ hist[i].op = "extend"
    /\ hist[i + 1].op = "extend"
    /\ hist[i].hours > 0
    /\ hist[i + 1].hours > 0

\* C7. Extend is additive: after extend(h1) then extend(h2), h1, h2 > 0, on a
\* record persisted with expires_at X and lifetime_extension_count c, the row
\* has expires_at X + h1 + h2 hours and count c + 2, and each extend emitted
\* one cluster-extension metric and nothing else.
C7_ExtendAdditive ==
    \A i \in Steps :
        ExtendedTwice(i) =>
            /\ hist[i + 1].postRow.expires_at =
                  Val(hist[i].preRow.expires_at.v
                      + (hist[i].hours + hist[i + 1].hours) * HOUR)
            /\ hist[i + 1].postRow.lifetime_extension_count =
                  Val(hist[i].preRow.lifetime_extension_count.v + 2)
            /\ Names(hist[i].emitted) = <<"cluster-extension">>
            /\ Names(hist[i + 1].emitted) = <<"cluster-extension">>

\* extend(2) then extend(3) on a new record of lifetime 1.
C7_Witness ==
    /\ Len(hist) = 2
    /\ ExtendedTwice(1)
    /\ hist[1].hours = 2
    /\ hist[2].hours = 3
    /\ table[1].expires_at = Val(6 * HOUR)
    /\ table[1].lifetime_extension_count = Val(2)

\* C8. Extend is rejected on a terminal record: an extend, by valid hours, of
\* a record whose status is TERMINATED or TERMINATED_WITH_ERRORS leaves the
\* row's expires_at and lifetime_extension_count and emits no
\* cluster-extension metric.
C8_ExtendRejectedOnTerminal ==
    \A i \in Steps :
        ( /\ hist[i].op = "extend"
          /\ hist[i].hours > 0
          /\ IsFinal(hist[i].pre.most_recent_status) ) =>
            /\ hist[i].postRow.expires_at = hist[i].preRow.expires_at
            /\ hist[i].postRow.lifetime_extension_count =
                  hist[i].preRow.lifetime_extension_count
            /\ ~Emits(hist[i].emitted, "cluster-extension")

\* Every extend of the run is by positive hours.
ValidExtensions == \A k \in Steps : hist[k].op = "extend" => hist[k].hours > 0

\* C9. Over a run of save, sync and extend calls on one instance, its extends
\* by positive hours, the row's expires_at and lifetime_extension_count change
\* only during an extend, by the requested hours and by one, and neither
\* decreases.
C9_OnlyExtendMovesExpiry ==
    ValidExtensions =>
        \A i \in Steps :
            /\ hist[i].op # "extend" =>
                  /\ hist[i].postRow.expires_at = hist[i].preRow.expires_at
                  /\ hist[i].postRow.lifetime_extension_count =
                        hist[i].preRow.lifetime_extension_count
            /\ (hist[i].op = "extend" /\ ~hist[i].raised) =>
                  /\ hist[i].postRow.expires_at =
                        Val(hist[i].preRow.expires_at.v + hist[i].hours * HOUR)
                  /\ hist[i].postRow.lifetime_extension_count =
                        Val(hist[i].preRow.lifetime_extension_count.v + 1)
            /\ hist[i].postRow.expires_at.v >= hist[i].preRow.expires_at.v
            /\ hist[i].postRow.lifetime_extension_count.v >=
                  hist[i].preRow.lifetime_extension_count.v

\* The request the instance was built from is invalid.
Invalid(inst) == inst.size < 1 \/ inst.lifetime <= 0 \/ ~inst.release_active

\* C10. Validation errors are never partially applied: a save of an instance
\* without handle and with size < 1, lifetime <= 0 or an inactive release
\* calls no start and writes nothing; an extend by hours <= 0 leaves the
\* row's expires_at and lifetime_extension_count as they were.
C10_InvalidInputRejected ==
    [][\A w \in Workers :
         /\ ( /\ Calls("save", w)
              /\ IsNone(mem[w][1].jobflow_id)
              /\ Invalid(mem[w][1]) ) =>
                 (~last'.startCalled /\ table' = table)
         /\ (Calls("extend", w) /\ last'.hours <= 0 /\ table # <<>>) =>
                 /\ table'[1].expires_at = table[1].expires_at
                 /\ table'[1].lifetime_extension_count =
                       table[1].lifetime_extension_count]_vars

\* The step is a save by worker w in which provisioner.start was called and
\* raised.
StartFailed(w) == Calls("save", w) /\ last'.startCalled /\ last'.started = 0

\* C11. A start failure aborts creation: a save in which provisioner.start
\* raised raises to its caller, writes no row, leaves the instance as it was
\* (jobflow_id None, expires_at not set), schedules no sync and emits no
\* cluster-emr-version metric; start is called by it that one time only, so
\* it returns no handle.
C11_StartFailureAborts ==
    [][\A w \in Workers :
         StartFailed(w) =>
            /\ last'.raised
            /\ ~last'.saved
            /\ table' = table
            /\ mem'[w] = mem[w]
            /\ IsNone(mem'[w][1].jobflow_id)
            /\ IsNone(mem[w][1].expires_at) => IsNone(mem'[w][1].expires_at)
            /\ ~pending'[w]
            /\ ~last'.scheduled
            /\ ~Emits(last'.emitted, "cluster-emr-version")]_vars

\* A save of a new instance raised by a failed start: nothing is persisted.
C11_Witness ==
    /\ last.op = "save"
    /\ last.startCalled
    /\ last.started = 0
    /\ last.raised
    /\ table = <<>>
    /\ mem["web"] # <<>>
    /\ IsNone(mem["web"][1].jobflow_id)
    /\ IsNone(mem["web"][1].expires_at)

\* The step is a sync by worker w whose provisioner.info raised, or a
\* deactivate whose stop returned and whose sync met that.
FetchFailed(w) ==
    /\ IsNone(last'.fetched)
    /\ \/ Calls("sync", w)
       \/ Calls("deactivate", w) /\ last'.stopped

\* C12. A failed fetch never mutates the record: a sync whose describe call
\* raised, alone or as the sync step of deactivate, raises, leaves the row and
\* the instance as they were, saves nothing, starts nothing and emits no
\* metric.
C12_FailedFetchLeavesRecord ==
    [][\A w \in Workers :
         FetchFailed(w) =>
            /\ last'.raised
            /\ table' = table
            /\ mem'[w] # <<>> => mem'[w] = mem[w]
            /\ ~last'.saved
            /\ ~last'.startCalled
            /\ last'.emitted = <<>>]_vars

\* The sync step of a deactivate, after stop returned, met a failed fetch on
\* a persisted record the worker still holds.
C12_Witness ==
    /\ last.op = "deactivate"
    /\ last.w = "web"
    /\ last.stopped
    /\ IsNone(last.fetched)
    /\ last.raised
    /\ table # <<>>
    /\ mem["web"] # <<>>
    /\ mem["web"][1].lifetime_extension_count # table[1].lifetime_extension_count

\* C13. Deactivate of a record that is terminal or has no handle is a no-op
\* success: a deactivate of an instance whose most_recent_status is
\* TERMINATED or TERMINATED_WITH_ERRORS, or whose jobflow_id is None, does not
\* raise, calls neither stop nor start and leaves the row as it was.
C13_DeactivateNoOp ==
    [][\A w \in Workers :
         ( /\ Calls("deactivate", w)
           /\ \/ IsFinal(mem[w][1].most_recent_status)
              \/ IsNone(mem[w][1].jobflow_id) ) =>
            /\ ~last'.raised
            /\ ~last'.stopCalled
            /\ ~last'.startCalled
            /\ table' = table]_vars

\* The step is the first save of the instance of a new record, and it returned.
FirstSave(w) ==
    /\ Calls("save", w)
    /\ table = <<>>
    /\ mem[w][1] = NewCluster(mem[w][1].size, mem[w][1].lifetime, mem[w][1].release_active)
    /\ ~last'.raised

\* C14. After the first successful save of a new record of lifetime L at time
\* T0 the row exists with the handle start returned, expires_at = T0 + L
\* hours, an empty most_recent_status and no started_at, ready_at or
\* finished_at, and one sync is scheduled for the commit, none having run;
\* and every row of every reachable state has a jobflow_id and an expires_at.
C14_CreatedRecord ==
    [][ /\ \A w \in Workers :
             FirstSave(w) =>
                /\ table' # <<>>
                /\ last'.started = 1
                /\ ~IsNone(table'[1].jobflow_id)
                /\ table'[1].expires_at = Val(now + mem[w][1].lifetime * HOUR)
                /\ table'[1].most_recent_status = Val("")
                /\ \A f \in DateFields : IsNone(table'[1][f])
                /\ pending'[w]
        /\ table' # <<>> =>
                /\ ~IsNone(table'[1].jobflow_id)
                /\ ~IsNone(table'[1].expires_at) ]_vars

\* Step i is a sync that got its snapshot.
SyncedStep(i) == hist[i].op = "sync" /\ ~IsNone(hist[i].fetched)

\* The snapshot of step i sets a mapped field to a value other than the
\* instance's.
Differs(i) ==
    \E k \in 1..Len(model_field_map) :
        /\ ~IsNone(hist[i].fetched.v[ApiField(k)])
        /\ hist[i].fetched.v[ApiField(k)] # hist[i].pre[ModelField(k)]

\* C15. Merge policy of sync: each mapped field of the instance has the
\* snapshot's value where the snapshot's is non-null and its previous value
\* where it is null; no other attribute of the instance changes; the record
\* is saved exactly when a non-null snapshot value differed from the stored
\* one, the row then carrying the merged fields; a snapshot equal to the
\* stored values writes nothing and emits no metric.
C15_MergePolicy ==
    \A i \in Steps :
        SyncedStep(i) =>
            /\ \A k \in 1..Len(model_field_map) :
                  hist[i].post[ModelField(k)] =
                      IF IsNone(hist[i].fetched.v[ApiField(k)])
                      THEN hist[i].pre[ModelField(k)]
                      ELSE hist[i].fetched.v[ApiField(k)]
            /\ \A f \in (DOMAIN hist[i].pre) \ MergedFields :
                  hist[i].post[f] = hist[i].pre[f]
            /\ hist[i].saved <=> Differs(i)
            /\ hist[i].saved =>
                  \A f \in MergedFields : hist[i].postRow[f] = hist[i].post[f]
            /\ ~Differs(i) =>
                  /\ hist[i].postRow = hist[i].preRow
                  /\ hist[i].emitted = <<>>

\* A second sync whose snapshot leaves creation_datetime null and sets
\* end_datetime: started_at is kept, finished_at set, the record saved.
C15_Witness ==
    /\ Len(hist) = 2
    /\ SyncedStep(2)
    /\ IsNone(hist[2].fetched.v.creation_datetime)
    /\ hist[2].pre.started_at = Val(1)
    /\ hist[2].post.started_at = Val(1)
    /\ IsNone(hist[2].pre.finished_at)
    /\ hist[2].post.finished_at = Val(3601)
    /\ hist[2].saved

\* Step i emitted the metric of the normalized instance hours.
EmitsHours(i) == Emits(hist[i].emitted, "cluster-normalized-instance-hours")

\* C16. The instance-hours metric fires once: it is emitted only by a sync
\* during which finished_at went from null to set, so by at most one
\* operation of a run; a later sync that changes started_at or ready_at of
\* the finished record does not emit it.
C16_InstanceHoursOnce ==
    /\ \A i \in Steps :
          EmitsHours(i) =>
              /\ hist[i].op = "sync"
              /\ IsNone(hist[i].pre.finished_at)
              /\ ~IsNone(hist[i].post.finished_at)
    /\ \A i, j \in Steps : (EmitsHours(i) /\ EmitsHours(j)) => i = j

\* Step i emitted one of the ready metrics.
EmitsReady(i) ==
    \/ Emits(hist[i].emitted, "cluster-ready")
    \/ Emits(hist[i].emitted, "cluster-time-to-ready")

\* Step i is the sync in which finished_at is set, ready_at null until then.
FinishedUnready(i) ==
    /\ hist[i].op = "sync"
    /\ IsNone(hist[i].pre.ready_at)
    /\ IsNone(hist[i].pre.finished_at)
    /\ ~IsNone(hist[i].post.finished_at)

\* C17. Over a run of calls on one instance of a record, no call emits both
\* the instance-hours metric and a ready metric; and from the sync in which
\* finished_at is set on a record whose ready_at was null until then, whether
\* or not its snapshot carries ready_datetime too, no call emits a ready
\* metric.
C17_ReadyWindowClosed ==
    /\ \A i \in Steps : ~(EmitsHours(i) /\ EmitsReady(i))
    /\ \A i \in Steps :
          FinishedUnready(i) => \A j \in i..Len(hist) : ~EmitsReady(j)

\* A snapshot without ready_datetime finished the record; the next sync set
\* ready_at on it.
C17_Witness ==
    /\ Len(hist) = 2
    /\ FinishedUnready(1)
    /\ EmitsHours(1)
    /\ IsNone(hist[1].post.ready_at)
    /\ hist[2].op = "sync"
    /\ hist[2].post.ready_at = Val(600)
    /\ hist[2].post.finished_at = hist[1].post.finished_at

\* The place of a status in the life of a cluster, in the order of the
\* STATUS_ constants.
LifecycleRank(status) ==
    CASE status = STATUS_STARTING -> 1
      [] status = STATUS_BOOTSTRAPPING -> 2
      [] status = STATUS_RUNNING -> 3
      [] status = STATUS_WAITING -> 4
      [] status = STATUS_TERMINATING -> 5
      [] status = STATUS_TERMINATED -> 6
      [] status = STATUS_TERMINATED_WITH_ERRORS -> 6
      [] OTHER -> 0

\* A snapshot is internally consistent: it reports end_datetime only with a
\* terminal state.
Consistent(s) == ~IsNone(s.end_datetime) => IsFinal(s.state)

\* Snapshot new was taken from the backend after snapshot old: both are
\* consistent, new reports a later status, and the timestamps old reports
\* are those new reports.
TakenAfter(new, old) ==
    /\ Consistent(new)
    /\ Consistent(old)
    /\ ~IsNone(new.state)
    /\ ~IsNone(old.state)
    /\ LifecycleRank(new.state.v) > LifecycleRank(old.state.v)
    /\ \A f \in {"creation_datetime", "ready_datetime", "end_datetime"} :
          ~IsNone(old[f]) => new[f] = old[f]

\* The first two operations are syncs, of a snapshot and then of one taken
\* before it.
OutOfOrderPair ==
    /\ Len(hist) >= 2
    /\ SyncedStep(1)
    /\ SyncedStep(2)
    /\ TakenAfter(hist[1].fetched.v, hist[2].fetched.v)

\* sync(old) then sync(new) on the record as it was created.
InOrder(old, new) ==
    LET first == Alone(old)
    IN  SyncOp(Outcome(first.inst, first.table), Val(new), Env(0, NoneS, TRUE, NoInfo))

\* C18. Out-of-order tolerance: after sync(Snew) then sync(Sold) on a fresh
\* record, Snew taken after Sold, the five merged fields of the instance and
\* of the row are those sync(Sold) then sync(Snew) gives.
C18_OutOfOrderConverges ==
    OutOfOrderPair =>
        \A f \in MergedFields :
            /\ hist[2].post[f] =
                  InOrder(hist[2].fetched.v, hist[1].fetched.v).inst[f]
            /\ hist[2].postRow[f] =
                  InOrder(hist[2].fetched.v, hist[1].fetched.v).table[1][f]

\* Every operation of the run is a sync, of a consistent snapshot when it got one.
ConsistentSyncs ==
    \A k \in Steps :
        /\ hist[k].op = "sync"
        /\ ~IsNone(hist[k].fetched) => Consistent(hist[k].fetched.v)

\* C19. After a run of syncs of internally consistent snapshots, a record
\* whose finished_at is set has most_recent_status TERMINATED or
\* TERMINATED_WITH_ERRORS, in the row and in the instance.
C19_FinishedIsTerminal ==
    ConsistentSyncs =>
        /\ ~IsNone(table[1].finished_at) => IsFinal(table[1].most_recent_status)
        /\ ~IsNone(mem[SeqWorker][1].finished_at) =>
              IsFinal(mem[SeqWorker][1].most_recent_status)

\* Step i changed one of the three timestamps of the instance.
MilestoneChanged(i) == \E f \in DateFields : hist[i].post[f] # hist[i].pre[f]

\* C20. sync never fails after it has persisted the record: a sync that saved
\* does not raise; and in every sync that changed a timestamp and leaves
\* finished_at or ready_at set, started_at is set, so the elapsed time of the
\* metric is defined.
C20_SyncNeverFailsAfterSave ==
    \A i \in Steps :
        hist[i].op = "sync" =>
            /\ hist[i].saved => ~hist[i].raised
            /\ ( /\ MilestoneChanged(i)
                 /\ \/ ~IsNone(hist[i].post.finished_at)
                    \/ ~IsNone(hist[i].post.ready_at) ) =>
                  ~IsNone(hist[i].post.started_at)

====
